---- MODULE Spec2Model ----
(***************************************************************************)
(* State-machine model of the ripkangaroo key-search scripts.              *)
(*                                                                         *)
(* kangrip.py is modelled process by process: the coordinator (main and    *)
(* scan_keys), the statistics process (display_statistics) and one         *)
(* process per kangaroo (scan_worker).  Every access to a shared object    *)
(* (the three multiprocessing.Value counters and their locks, the shared   *)
(* Lock, the stop Event, the output file) is a step of its own, so that    *)
(* every interleaving of the processes is explored.  kangripV1.py is       *)
(* modelled the same way over the same shared objects (its definitions     *)
(* carry the prefix V1_): its worker loop ends on the range bound or on    *)
(* the stop event, which a worker sets itself when it finds a match.       *)
(* kangripV3.py (prefix V3_) has no shared objects: main hands each         *)
(* kangaroo_worker a slice of the range and collects what it returns.      *)
(*                                                                         *)
(* Scaling.  secp256k1 scalars are 256 bits wide, which TLC cannot hold.   *)
(* The 32-byte key width and the curve order are scaled down together      *)
(* (KeyBits, SECP256K1_ORDER) keeping 1 < order < 2^KeyBits, and the       *)
(* reshuffle threshold is scaled to RANGE_SHUFFLE_THRESHOLD iterations.    *)
(***************************************************************************)
EXTENDS Integers, Sequences, FiniteSets, TLC

\* ------------------------------------------------------------------ bounds
MaxKangaroos == 2
MaxEnd == 3
MaxGenerated == 2
MaxLaunchEnd == 5
MaxV1End == 4
MaxV3End == 7

\* ------------------------------------------------------- program constants
\* os.urandom(32) / to_bytes(32, 'big'): the key width, scaled from 256 bits.
KeyBits == 3
\* SECP256K1_ORDER, scaled: the largest valid scalar is SECP256K1_ORDER - 1.
SECP256K1_ORDER == 5
\* RANGE_SHUFFLE_THRESHOLD, scaled from 2^36 iterations.
RANGE_SHUFFLE_THRESHOLD == 2
\* Value('i', 0): a signed 32-bit C int.
C_INT_MAX == 2147483647
\* kangripV1.generate_jump_table(size=100), scaled.
JumpTableSize == 2
\* kangripV3.CURVE_ORDER, scaled.  In the source it is the field prime of
\* secp256k1, which lies above the group order and below 2^256.
CURVE_ORDER == 6

Bytes32Max == 2^KeyBits - 1

Kangaroos == 1..MaxKangaroos

VARIABLES
    \* command line (kangrip.main)
    start_key, end_key, kangaroo_count, reverse, random_mode, sequence_scan,
    target_file,
    \* coordinator: main and scan_keys
    main_pc, targets, stdout, shared_created, launched, joined, final_total,
    \* shared objects created by scan_keys
    generated_count, loop_count, matches_found,
    lock, generated_rlock, loop_rlock, matches_rlock, stop_event,
    \* the output file
    found_file,
    \* scan_worker, one per kangaroo
    pc, start, process_end, sequence, local_generation_count, private_key,
    tmp, fbuf, fault,
    \* display_statistics
    stats_pc, snapshot,
    \* kangripV1: scan_keys' jump table, scan_worker's locals
    jump_table, current_key, jump_index,
    \* kangripV3: kangaroo_worker's locals and what it prints, and found.txt
    candidate, found_keys, generated_outputs, worker_stdout, all_file

inputs == <<start_key, end_key, kangaroo_count, reverse, random_mode,
            sequence_scan, target_file>>
mainvars == <<main_pc, targets, stdout, shared_created, launched, joined,
              final_total>>
counters == <<generated_count, loop_count, matches_found>>
locks == <<lock, generated_rlock, loop_rlock, matches_rlock>>
workervars == <<pc, start, process_end, sequence, local_generation_count,
                private_key, tmp, fbuf, fault>>
statsvars == <<stats_pc, snapshot>>
v1vars == <<jump_table, current_key, jump_index>>
v3vars == <<candidate, found_keys, generated_outputs, worker_stdout, all_file>>
vars == <<inputs, mainvars, counters, locks, stop_event, found_file,
          workervars, statsvars, v1vars, v3vars>>

\* ----------------------------------------------------------- pure functions

\* step = -1 if reverse else 1
step == IF reverse THEN -1 ELSE 1

\* range_step = (end_key - start_key) // kangaroo_count
range_step == (end_key - start_key) \div kangaroo_count

\* process_start = start_key + i * range_step, for kangaroo i + 1
ProcessStart(i) == start_key + i * range_step

Min(a, b) == IF a < b THEN a ELSE b

\* process_end = min(process_start + range_step, end_key)
ProcessEnd(i) == Min(ProcessStart(i) + range_step, end_key)

\* (n).to_bytes(32, 'big') raises OverflowError unless 0 <= n < 2^256
FitsBytes32(n) == 0 <= n /\ n <= Bytes32Max

\* coincurve's PrivateKey(secret) raises ValueError unless 0 < secret < order
ValidSecret(k) == 0 < k /\ k < SECP256K1_ORDER

\* public_key.format(compressed=...), then RIPEMD160(SHA256(.)), then .hex():
\* the digests of different encodings or of different keys are different.
PublicKey(k, compressed) ==
    <<IF compressed THEN "compressed" ELSE "uncompressed", k>>
Hash160(pub) == <<"ripemd160", <<"sha256", pub>>>>
Hex(digest) == <<"hex", digest>>
ripemd160_compressed(k) == Hash160(PublicKey(k, TRUE))
ripemd160_uncompressed(k) == Hash160(PublicKey(k, FALSE))

\* load_targets: the set of stripped lines, or the empty set when the file is
\* missing
load_targets(file) == IF file.exists THEN file.lines ELSE {}

\* compressed.hex() in targets or uncompressed.hex() in targets
IsMatch(k) ==
    \/ Hex(ripemd160_compressed(k)) \in targets
    \/ Hex(ripemd160_uncompressed(k)) \in targets

\* The text written for a match, line by line.
FormatRecord(kangaroo_id, k) ==
    << <<"Kangaroo", kangaroo_id, "found key:">>,
       <<"Private Key:", k>>,
       <<"RIPEMD-160 Hash:",
         IF Hex(ripemd160_compressed(k)) \in targets
         THEN Hex(ripemd160_compressed(k))
         ELSE Hex(ripemd160_uncompressed(k))>>,
       <<"">> >>

\* value += 1 on a c_int
CIntInc(v) == IF v = C_INT_MAX THEN (0 - C_INT_MAX) - 1 ELSE v + 1

\* lock owners
Free == <<>>
KangarooProc(w) == <<"kangaroo", w>>
StatsProc == <<"stats">>

\* sequence < start_key if step < 0 else sequence > end_key
PastBound(w) ==
    IF step < 0 THEN sequence[w] < start_key ELSE sequence[w] > end_key

Terminated(w) == pc[w] \in {"stopped", "dead"}

\* ------------------------------------------------------------ initial state

\* Target files for a run that starts at `first`: missing, empty, or holding
\* fingerprints of one scalar: the compressed one of the first scalar of the
\* range, or the uncompressed one, or both, of the first scalar a sequential
\* worker derives (start_key + sequence).
TargetFiles(first) ==
    {[exists |-> FALSE, lines |-> {}],
     [exists |-> TRUE, lines |-> {}],
     [exists |-> TRUE, lines |-> {Hex(ripemd160_compressed(first))}],
     [exists |-> TRUE, lines |-> {Hex(ripemd160_uncompressed(first + first))}],
     [exists |-> TRUE, lines |-> {Hex(ripemd160_compressed(first + first)),
                                  Hex(ripemd160_uncompressed(first + first))}]}

\* The state when main() is entered.  The command line obeys the documented
\* constraints worker_count >= 1 and 0 < start < end <= curve order.  -R and
\* -S given together (random keys, walking cursor) are explored with one
\* kangaroo.
CommandLines(maxEnd) ==
    /\ start_key \in 1..maxEnd
    /\ end_key \in 1..maxEnd
    /\ start_key < end_key
    /\ end_key <= SECP256K1_ORDER
    /\ kangaroo_count \in Kangaroos
    /\ reverse \in BOOLEAN
    /\ random_mode \in BOOLEAN
    /\ sequence_scan \in BOOLEAN
    /\ (random_mode /\ sequence_scan) => kangaroo_count = 1
    /\ target_file \in TargetFiles(start_key)

\* Nothing is created and no process is started yet.
Fresh ==
    /\ targets = {}
    /\ stdout = {}
    /\ shared_created = FALSE
    /\ launched = 0
    /\ joined = 0
    /\ final_total = 0
    /\ generated_count = 0
    /\ loop_count = 0
    /\ matches_found = 0
    /\ lock = Free
    /\ generated_rlock = Free
    /\ loop_rlock = Free
    /\ matches_rlock = Free
    /\ stop_event = FALSE
    /\ found_file = <<>>
    /\ pc = [w \in Kangaroos |-> "unstarted"]
    /\ start = [w \in Kangaroos |-> 0]
    /\ process_end = [w \in Kangaroos |-> 0]
    /\ sequence = [w \in Kangaroos |-> 0]
    /\ local_generation_count = [w \in Kangaroos |-> 0]
    /\ private_key = [w \in Kangaroos |-> 0]
    /\ tmp = [w \in Kangaroos |-> 0]
    /\ fbuf = [w \in Kangaroos |-> <<>>]
    /\ fault = [w \in Kangaroos |-> ""]
    /\ stats_pc = "unstarted"
    /\ snapshot = <<0, 0, 0>>
    /\ jump_table = <<>>
    /\ current_key = [w \in Kangaroos |-> 0]
    /\ jump_index = [w \in Kangaroos |-> 0]
    /\ candidate = [w \in Kangaroos |-> 0]
    /\ found_keys = [w \in Kangaroos |-> <<>>]
    /\ generated_outputs = [w \in Kangaroos |-> <<>>]
    /\ worker_stdout = [w \in Kangaroos |-> <<>>]
    /\ all_file = <<>>

\* kangrip.py is at the first statement of main that is modelled.
Entered == main_pc = "L146" /\ Fresh

Init == CommandLines(MaxEnd) /\ Entered

\* ------------------------------------------------- coordinator: kangrip.main

\* MainLoad without the test of line 147: scan_keys is called whatever was
\* loaded.
MainLoad_Unchecked ==
    /\ main_pc = "L146"
    /\ targets' = load_targets(target_file)
    /\ stdout' = stdout
          \cup (IF target_file.exists THEN {} ELSE {"Error: Target file not found."})
    /\ main_pc' = "L98"
    /\ UNCHANGED <<inputs, v3vars, v1vars, shared_created, launched, joined, final_total,
                   counters, locks, stop_event, found_file, workervars,
                   statsvars>>

\* main, lines 146-149: load the targets; with none, report and return.
MainLoad ==
    /\ main_pc = "L146"
    /\ targets' = load_targets(target_file)
    /\ stdout' = stdout
          \cup (IF target_file.exists THEN {} ELSE {"Error: Target file not found."})
          \cup (IF load_targets(target_file) = {}
                THEN {"No targets loaded. Exiting."} ELSE {})
    /\ main_pc' = IF load_targets(target_file) = {} THEN "returned" ELSE "L98"
    /\ UNCHANGED <<inputs, v3vars, v1vars, shared_created, launched, joined, final_total,
                   counters, locks, stop_event, found_file, workervars,
                   statsvars>>

\* scan_keys, lines 98-106: create the counters, the lock and the event.
CreateShared ==
    /\ main_pc = "L98"
    /\ shared_created' = TRUE
    /\ generated_count' = 0
    /\ loop_count' = 0
    /\ matches_found' = 0
    /\ lock' = Free
    /\ generated_rlock' = Free
    /\ loop_rlock' = Free
    /\ matches_rlock' = Free
    /\ stop_event' = FALSE
    /\ main_pc' = "L108"
    /\ UNCHANGED <<inputs, v3vars, v1vars, targets, stdout, launched, joined, final_total,
                   found_file, workervars, statsvars>>

\* scan_keys, lines 108-109: start the statistics process.
StartStats ==
    /\ main_pc = "L108"
    /\ stats_pc' = "L86"
    /\ main_pc' = "L112"
    /\ UNCHANGED <<inputs, v3vars, v1vars, targets, stdout, shared_created, launched, joined,
                   final_total, counters, locks, stop_event, found_file,
                   workervars, snapshot>>

\* scan_keys, lines 112-123: start kangaroo i + 1 on its subrange; the new
\* process runs scan_worker up to its loop (lines 52-53).
Launch ==
    /\ main_pc = "L112"
    /\ launched < kangaroo_count
    /\ LET i == launched
           w == launched + 1
       IN /\ start' = [start EXCEPT ![w] = ProcessStart(i)]
          /\ process_end' = [process_end EXCEPT ![w] = ProcessEnd(i)]
          /\ sequence' = [sequence EXCEPT ![w] = ProcessStart(i)]
          /\ local_generation_count' = [local_generation_count EXCEPT ![w] = 0]
          /\ pc' = [pc EXCEPT ![w] = "L54"]
    /\ launched' = launched + 1
    /\ main_pc' = IF launched + 1 = kangaroo_count THEN "L125" ELSE "L112"
    /\ UNCHANGED <<inputs, v3vars, v1vars, targets, stdout, shared_created, joined,
                   final_total, counters, locks, stop_event, found_file,
                   private_key, tmp, fbuf, fault, statsvars>>

\* Join that does not wait: the coordinator goes on while the kangaroo may
\* still be running.
Join_NoWait ==
    /\ main_pc = "L125"
    /\ joined' = joined + 1
    /\ main_pc' = IF joined + 1 = kangaroo_count THEN "L128" ELSE "L125"
    /\ UNCHANGED <<inputs, v3vars, v1vars, targets, stdout, shared_created, launched,
                   final_total, counters, locks, stop_event, found_file,
                   workervars, statsvars>>

\* scan_keys, lines 125-126: join the next kangaroo, once it has terminated.
Join ==
    /\ main_pc = "L125"
    /\ joined < kangaroo_count
    /\ Terminated(joined + 1)
    /\ joined' = joined + 1
    /\ main_pc' = IF joined + 1 = kangaroo_count THEN "L128" ELSE "L125"
    /\ UNCHANGED <<inputs, v3vars, v1vars, targets, stdout, shared_created, launched,
                   final_total, counters, locks, stop_event, found_file,
                   workervars, statsvars>>

\* scan_keys, line 128: stop_event.set()
SetStop ==
    /\ main_pc = "L128"
    /\ stop_event' = TRUE
    /\ main_pc' = "L129"
    /\ UNCHANGED <<inputs, v3vars, v1vars, targets, stdout, shared_created, launched, joined,
                   final_total, counters, locks, found_file, workervars,
                   statsvars>>

\* scan_keys, lines 129-130: join the statistics process, print the total.
JoinStats ==
    /\ main_pc = "L129"
    /\ stats_pc = "done"
    /\ generated_rlock = Free
    /\ final_total' = generated_count
    /\ main_pc' = "done"
    /\ UNCHANGED <<inputs, v3vars, v1vars, targets, stdout, shared_created, launched, joined,
                   counters, locks, stop_event, found_file, workervars,
                   statsvars>>

\* --------------------------------------------------- kangrip.scan_worker
\* A step of a kangaroo is one access to a shared object (the stop event, a
\* lock, a counter, the output file) together with the process-local
\* statements that follow it up to the next such access.

WorkerFrame == <<inputs, v1vars, v3vars, mainvars, statsvars>>

\* The worker dies of an uncaught exception.
Raise(w, exception) ==
    /\ pc' = [pc EXCEPT ![w] = "dead"]
    /\ fault' = [fault EXCEPT ![w] = exception]

\* Line 61: private_key_to_ripemd160(private_key); PrivateKey() rejects a
\* secret that is zero or not below the curve order.
Fingerprint(w, k) ==
    IF ValidSecret(k)
    THEN /\ private_key' = [private_key EXCEPT ![w] = k]
         /\ pc' = [pc EXCEPT ![w] = "L63"]
         /\ UNCHANGED fault
    ELSE /\ Raise(w, "ValueError: secret out of range")
         /\ UNCHANGED private_key

\* Line 19: os.urandom(32) draws any value of 0..Bytes32Max, whatever the
\* range is.  The model samples it at zero, at one scalar below the curve
\* order (the one the target files may hold), at the curve order and at the
\* largest value.
UrandomSamples ==
    {k \in {0, start_key + start_key, SECP256K1_ORDER, Bytes32Max} :
        k <= Bytes32Max}

\* Lines 60-61 with the cursor at `cursor`: generate_private_key, then the
\* two fingerprints.  Sets pc, private_key and fault.
Generate(w, cursor) ==
    IF random_mode
    THEN \E k \in UrandomSamples : Fingerprint(w, k)
    ELSE IF sequence_scan
    THEN IF FitsBytes32(start_key + cursor)
         THEN Fingerprint(w, start_key + cursor)
         ELSE /\ Raise(w, "OverflowError: int too big to convert")
              /\ UNCHANGED private_key
    ELSE /\ Raise(w, "ValueError: Specify a valid mode")
         /\ UNCHANGED private_key

\* Candidates begun so far: those counted and those between line 55 and the
\* end of line 64.
Started ==
    generated_count
    + Cardinality({v \in Kangaroos :
                      pc[v] \in {"L56", "L57", "L57w", "L63", "L64", "L64w"}})

\* The runs are followed for MaxGenerated candidates, from a count of zero
\* or up to the largest value of the C int.
InWindow ==
    /\ Started >= 0
    /\ Started < MaxGenerated \/ Started > C_INT_MAX - MaxGenerated

\* Line 54, while not stop_event.is_set(); then the test of line 55 and,
\* when the cursor is inside the bounds, lines 60-61.
\* `sequence is not None` holds exactly when sequence_scan does (lines 52, 79).
LoopTest(w) ==
    /\ pc[w] = "L54"
    /\ IF stop_event
       THEN /\ pc' = [pc EXCEPT ![w] = "stopped"]
            /\ UNCHANGED <<private_key, fault>>
       ELSE /\ InWindow
            /\ IF sequence_scan /\ PastBound(w)
               THEN /\ pc' = [pc EXCEPT ![w] = "L56"]
                    /\ UNCHANGED <<private_key, fault>>
               ELSE Generate(w, sequence[w])
    /\ UNCHANGED <<WorkerFrame, counters, locks, stop_event, found_file,
                   start, process_end, sequence, local_generation_count,
                   tmp, fbuf>>

\* Line 56: with loop_count.get_lock()
AcquireLoopLock(w) ==
    /\ pc[w] = "L56"
    /\ loop_rlock = Free
    /\ loop_rlock' = KangarooProc(w)
    /\ pc' = [pc EXCEPT ![w] = "L57"]
    /\ UNCHANGED <<WorkerFrame, counters, lock, generated_rlock,
                   matches_rlock, stop_event, found_file, start, process_end,
                   sequence, local_generation_count, private_key, tmp, fbuf,
                   fault>>

\* Line 57, the read of loop_count.value += 1
ReadLoop(w) ==
    /\ pc[w] = "L57"
    /\ tmp' = [tmp EXCEPT ![w] = loop_count]
    /\ pc' = [pc EXCEPT ![w] = "L57w"]
    /\ UNCHANGED <<WorkerFrame, counters, locks, stop_event, found_file,
                   start, process_end, sequence, local_generation_count,
                   private_key, fbuf, fault>>

\* WriteLoop that leaves the with block of line 56 without releasing the
\* counter's lock.
WriteLoop_KeepsLock(w) ==
    /\ pc[w] = "L57w"
    /\ loop_count' = CIntInc(tmp[w])
    /\ tmp' = [tmp EXCEPT ![w] = 0]
    /\ sequence' = [sequence EXCEPT ![w] = start[w]]
    /\ Generate(w, start[w])
    /\ UNCHANGED <<WorkerFrame, generated_count, matches_found, locks,
                   stop_event, found_file, start, process_end,
                   local_generation_count, fbuf>>

\* Line 57, the write of loop_count.value += 1, and the release of the lock;
\* line 58 puts the cursor back on the worker's start, lines 60-61 follow.
WriteLoop(w) ==
    /\ pc[w] = "L57w"
    /\ loop_count' = CIntInc(tmp[w])
    /\ tmp' = [tmp EXCEPT ![w] = 0]
    /\ loop_rlock' = Free
    /\ sequence' = [sequence EXCEPT ![w] = start[w]]
    /\ Generate(w, start[w])
    /\ UNCHANGED <<WorkerFrame, generated_count, matches_found, lock,
                   generated_rlock, matches_rlock, stop_event, found_file,
                   start, process_end, local_generation_count, fbuf>>

\* AcquireLock without mutual exclusion: the increment of line 64 is a bare
\* read-modify-write.
AcquireLock_NoExclusion(w) ==
    /\ pc[w] = "L63"
    /\ lock' = KangarooProc(w)
    /\ pc' = [pc EXCEPT ![w] = "L64"]
    /\ UNCHANGED <<WorkerFrame, counters, generated_rlock, loop_rlock,
                   matches_rlock, stop_event, found_file, start, process_end,
                   sequence, local_generation_count, private_key, tmp, fbuf,
                   fault>>

\* Line 63: with lock
AcquireLock(w) ==
    /\ pc[w] = "L63"
    /\ lock = Free
    /\ lock' = KangarooProc(w)
    /\ pc' = [pc EXCEPT ![w] = "L64"]
    /\ UNCHANGED <<WorkerFrame, counters, generated_rlock, loop_rlock,
                   matches_rlock, stop_event, found_file, start, process_end,
                   sequence, local_generation_count, private_key, tmp, fbuf,
                   fault>>

\* Line 64, the read of generated_count.value += 1 (the property takes the
\* counter's own lock for the read alone).
ReadGenerated(w) ==
    /\ pc[w] = "L64"
    /\ generated_rlock = Free
    /\ tmp' = [tmp EXCEPT ![w] = generated_count]
    /\ pc' = [pc EXCEPT ![w] = "L64w"]
    /\ UNCHANGED <<WorkerFrame, counters, locks, stop_event, found_file,
                   start, process_end, sequence, local_generation_count,
                   private_key, fbuf, fault>>

\* Line 76: random.randint(start_key, end_key - step), both ends included.
ShuffleStarts == start_key..(end_key - step)

\* Lines 75-82, entered with the local count at `count`: past the threshold
\* choose a new cursor and reset the local count; then sequence += step, a
\* TypeError when sequence is None.  The candidate of this iteration is dead
\* from here on.  Sets pc, sequence, local_generation_count, private_key and
\* fault.
ShuffleAndStep(w, count) ==
    /\ \E process_start \in ShuffleStarts :
          LET shuffle == count >= RANGE_SHUFFLE_THRESHOLD
              cursor == IF shuffle THEN process_start ELSE sequence[w]
          IN /\ local_generation_count' =
                   [local_generation_count EXCEPT ![w] =
                       IF shuffle THEN 0 ELSE count]
             /\ IF sequence_scan
                THEN /\ sequence' = [sequence EXCEPT ![w] = cursor + step]
                     /\ pc' = [pc EXCEPT ![w] = "L54"]
                     /\ UNCHANGED fault
                ELSE /\ Raise(w, "TypeError: NoneType += int")
                     /\ UNCHANGED sequence
    /\ private_key' = [private_key EXCEPT ![w] = 0]

\* Line 64, the write of generated_count.value += 1, line 65 and the release
\* of the lock; then the test of line 68.  On a match lines 69-70 open the
\* output file for appending and write the record, which the file object
\* buffers; otherwise lines 75-82 follow.
WriteGenerated(w) ==
    /\ pc[w] = "L64w"
    /\ generated_rlock = Free
    /\ generated_count' = CIntInc(tmp[w])
    /\ tmp' = [tmp EXCEPT ![w] = 0]
    /\ lock' = Free
    /\ IF IsMatch(private_key[w])
       THEN /\ local_generation_count' =
                  [local_generation_count EXCEPT ![w] = @ + 1]
            /\ fbuf' = [fbuf EXCEPT ![w] = FormatRecord(w, private_key[w])]
            /\ pc' = [pc EXCEPT ![w] = "L70"]
            /\ UNCHANGED <<sequence, private_key, fault>>
       ELSE /\ ShuffleAndStep(w, local_generation_count[w] + 1)
            /\ UNCHANGED fbuf
    /\ UNCHANGED <<WorkerFrame, loop_count, matches_found, generated_rlock,
                   loop_rlock, matches_rlock, stop_event, found_file, start,
                   process_end>>

\* CloseFile that does not flush: the record stays in the buffer of the file
\* object.
CloseFile_NoFlush(w) ==
    /\ pc[w] = "L70"
    /\ pc' = [pc EXCEPT ![w] = "L71"]
    /\ UNCHANGED <<WorkerFrame, counters, locks, stop_event, found_file,
                   start, process_end, sequence, local_generation_count,
                   private_key, tmp, fbuf, fault>>

\* CloseFile on an unbuffered file: every line of the record is a write of
\* its own.
CloseFile_LineByLine(w) ==
    /\ pc[w] = "L70"
    /\ found_file' = Append(found_file, Head(fbuf[w]))
    /\ fbuf' = [fbuf EXCEPT ![w] = Tail(@)]
    /\ pc' = [pc EXCEPT ![w] = IF Len(fbuf[w]) = 1 THEN "L71" ELSE "L70"]
    /\ UNCHANGED <<WorkerFrame, counters, locks, stop_event, start,
                   process_end, sequence, local_generation_count, private_key,
                   tmp, fault>>

\* Line 70, leaving the with block: close() flushes the buffer with one
\* write on a descriptor opened with O_APPEND.
CloseFile(w) ==
    /\ pc[w] = "L70"
    /\ found_file' = found_file \o fbuf[w]
    /\ fbuf' = [fbuf EXCEPT ![w] = <<>>]
    /\ pc' = [pc EXCEPT ![w] = "L71"]
    /\ UNCHANGED <<WorkerFrame, counters, locks, stop_event, start,
                   process_end, sequence, local_generation_count, private_key,
                   tmp, fault>>

\* Line 71: with matches_found.get_lock()
AcquireMatchesLock(w) ==
    /\ pc[w] = "L71"
    /\ matches_rlock = Free
    /\ matches_rlock' = KangarooProc(w)
    /\ pc' = [pc EXCEPT ![w] = "L72"]
    /\ UNCHANGED <<WorkerFrame, counters, lock, generated_rlock, loop_rlock,
                   stop_event, found_file, start, process_end, sequence,
                   local_generation_count, private_key, tmp, fbuf, fault>>

\* Line 72, the read of matches_found.value += 1
ReadMatches(w) ==
    /\ pc[w] = "L72"
    /\ tmp' = [tmp EXCEPT ![w] = matches_found]
    /\ pc' = [pc EXCEPT ![w] = "L72w"]
    /\ UNCHANGED <<WorkerFrame, counters, locks, stop_event, found_file,
                   start, process_end, sequence, local_generation_count,
                   private_key, fbuf, fault>>

\* WriteMatches that counts one match for each of the two fingerprints found
\* in the target set.
WriteMatches_PerFingerprint(w) ==
    /\ pc[w] = "L72w"
    /\ matches_found' =
          IF /\ Hex(ripemd160_compressed(private_key[w])) \in targets
             /\ Hex(ripemd160_uncompressed(private_key[w])) \in targets
          THEN CIntInc(CIntInc(tmp[w]))
          ELSE CIntInc(tmp[w])
    /\ tmp' = [tmp EXCEPT ![w] = 0]
    /\ matches_rlock' = Free
    /\ ShuffleAndStep(w, local_generation_count[w])
    /\ UNCHANGED <<WorkerFrame, generated_count, loop_count, lock,
                   generated_rlock, loop_rlock, stop_event, found_file, start,
                   process_end, fbuf>>

\* Line 72, the write of matches_found.value += 1, and the release; then
\* lines 75-82.
WriteMatches(w) ==
    /\ pc[w] = "L72w"
    /\ matches_found' = CIntInc(tmp[w])
    /\ tmp' = [tmp EXCEPT ![w] = 0]
    /\ matches_rlock' = Free
    /\ ShuffleAndStep(w, local_generation_count[w])
    /\ UNCHANGED <<WorkerFrame, generated_count, loop_count, lock,
                   generated_rlock, loop_rlock, stop_event, found_file, start,
                   process_end, fbuf>>

Worker(w) ==
    \/ LoopTest(w)
    \/ AcquireLoopLock(w)
    \/ ReadLoop(w)
    \/ WriteLoop(w)
    \/ AcquireLock(w)
    \/ ReadGenerated(w)
    \/ WriteGenerated(w)
    \/ CloseFile(w)
    \/ AcquireMatchesLock(w)
    \/ ReadMatches(w)
    \/ WriteMatches(w)

\* ------------------------------------------------ kangrip.display_statistics

StatsFrame ==
    <<inputs, v1vars, v3vars, mainvars, counters, stop_event, found_file,
      workervars>>

\* Lines 86-88: the loop test, then the sleep.
StatsTest ==
    /\ stats_pc = "L86"
    /\ stats_pc' = IF stop_event THEN "done" ELSE "L89"
    /\ UNCHANGED <<StatsFrame, locks, snapshot>>

\* StatsAcquireGenerated without the lock: the reporter goes on to read the
\* counters while the kangaroos may write generated_count.
StatsAcquireGenerated_NoLock ==
    /\ stats_pc = "L89"
    /\ stats_pc' = "L89b"
    /\ UNCHANGED <<StatsFrame, locks, snapshot>>

\* Line 89: the three counter locks are taken one after the other.
StatsAcquireGenerated ==
    /\ stats_pc = "L89"
    /\ generated_rlock = Free
    /\ generated_rlock' = StatsProc
    /\ stats_pc' = "L89b"
    /\ UNCHANGED <<StatsFrame, lock, loop_rlock, matches_rlock, snapshot>>

StatsAcquireLoop ==
    /\ stats_pc = "L89b"
    /\ loop_rlock = Free
    /\ loop_rlock' = StatsProc
    /\ stats_pc' = "L89c"
    /\ UNCHANGED <<StatsFrame, lock, generated_rlock, matches_rlock, snapshot>>

\* Line 89, the third lock, and line 90: total_keys = generated_count.value
StatsReadGenerated ==
    /\ stats_pc = "L89c"
    /\ matches_rlock = Free
    /\ matches_rlock' = StatsProc
    /\ snapshot' = [snapshot EXCEPT ![1] = generated_count]
    /\ stats_pc' = "L91"
    /\ UNCHANGED <<StatsFrame, lock, generated_rlock, loop_rlock>>

\* Line 91: loop = loop_count.value
StatsReadLoop ==
    /\ stats_pc = "L91"
    /\ snapshot' = [snapshot EXCEPT ![2] = loop_count]
    /\ stats_pc' = "L92"
    /\ UNCHANGED <<StatsFrame, locks>>

\* Line 92: matches = matches_found.value; then the with block releases the
\* three locks.
StatsRead ==
    /\ stats_pc = "L92"
    /\ snapshot' = [snapshot EXCEPT ![3] = matches_found]
    /\ generated_rlock' = Free
    /\ loop_rlock' = Free
    /\ matches_rlock' = Free
    /\ stats_pc' = "L94"
    /\ UNCHANGED <<StatsFrame, lock>>

\* Lines 93-94: print the progress line; the three locals are dead until the
\* next read overwrites them.
StatsPrint ==
    /\ stats_pc = "L94"
    /\ snapshot' = <<0, 0, 0>>
    /\ stats_pc' = "L86"
    /\ UNCHANGED <<StatsFrame, locks>>

Stats ==
    \/ StatsTest
    \/ StatsAcquireGenerated
    \/ StatsAcquireLoop
    \/ StatsReadGenerated
    \/ StatsReadLoop
    \/ StatsRead
    \/ StatsPrint

Main ==
    \/ MainLoad
    \/ CreateShared
    \/ StartStats
    \/ Launch
    \/ Join
    \/ SetStop
    \/ JoinStats

Next ==
    \/ Main
    \/ Stats
    \/ \E w \in Kangaroos : Worker(w)

Spec == Init /\ [][Next]_vars

\* The launch phase of the coordinator alone, over a wider set of ranges: the
\* partition of the range is computed by scan_keys before any worker runs and
\* no worker changes it.
InitLaunch == CommandLines(MaxLaunchEnd) /\ Entered

NextLaunch ==
    \/ MainLoad
    \/ CreateShared
    \/ StartStats
    \/ Launch

SpecLaunch == InitLaunch /\ [][NextLaunch]_vars

\* A long run of kangrip.py -R -S (random keys, walking cursor, one kangaroo),
\* taken up when the kangaroo has counted C_INT_MAX - 1 or C_INT_MAX
\* candidates and is at its loop test, the cursor at the start of the range
\* or just past its bound.  RANGE_SHUFFLE_THRESHOLD being scaled, the local
\* count is the count modulo the threshold.
InitCounter ==
    /\ CommandLines(MaxEnd)
    /\ random_mode /\ sequence_scan
    /\ load_targets(target_file) # {}
    /\ main_pc = "L125"
    /\ targets = load_targets(target_file)
    /\ stdout = {}
    /\ shared_created = TRUE
    /\ launched = kangaroo_count
    /\ joined = 0
    /\ final_total = 0
    /\ generated_count \in {C_INT_MAX - 1, C_INT_MAX}
    /\ loop_count = 0
    /\ matches_found = 0
    /\ lock = Free
    /\ generated_rlock = Free
    /\ loop_rlock = Free
    /\ matches_rlock = Free
    /\ stop_event = FALSE
    /\ found_file = <<>>
    /\ pc = [w \in Kangaroos |->
                IF w <= kangaroo_count THEN "L54" ELSE "unstarted"]
    /\ start = [w \in Kangaroos |->
                   IF w <= kangaroo_count THEN ProcessStart(w - 1) ELSE 0]
    /\ process_end = [w \in Kangaroos |->
                         IF w <= kangaroo_count THEN ProcessEnd(w - 1) ELSE 0]
    /\ \E cursor \in {start_key,
                       IF reverse THEN start_key - 1 ELSE end_key + 1} :
          sequence = [w \in Kangaroos |->
                         IF w <= kangaroo_count THEN cursor ELSE 0]
    /\ local_generation_count =
          [w \in Kangaroos |->
              IF w <= kangaroo_count
              THEN generated_count % RANGE_SHUFFLE_THRESHOLD ELSE 0]
    /\ private_key = [w \in Kangaroos |-> 0]
    /\ tmp = [w \in Kangaroos |-> 0]
    /\ fbuf = [w \in Kangaroos |-> <<>>]
    /\ fault = [w \in Kangaroos |-> ""]
    /\ stats_pc = "L86"
    /\ snapshot = <<0, 0, 0>>
    /\ jump_table = <<>>
    /\ current_key = [w \in Kangaroos |-> 0]
    /\ jump_index = [w \in Kangaroos |-> 0]
    /\ candidate = [w \in Kangaroos |-> 0]
    /\ found_keys = [w \in Kangaroos |-> <<>>]
    /\ generated_outputs = [w \in Kangaroos |-> <<>>]
    /\ worker_stdout = [w \in Kangaroos |-> <<>>]
    /\ all_file = <<>>

NextCounter ==
    \/ Stats
    \/ \E w \in Kangaroos : Worker(w)

SpecCounter == InitCounter /\ [][NextCounter]_vars

\* ============================================================== kangripV1.py

\* The variables that only kangrip.py uses.
kangripOnly == <<reverse, random_mode, sequence_scan, shared_created, loop_count,
                 matches_found, loop_rlock, matches_rlock, sequence,
                 local_generation_count, private_key, fbuf>>

\* kangripV1.main: the range typed at the prompts, the -f file and
\* cpu_count() (held in kangaroo_count).
V1_Inputs(maxEnd) ==
    /\ start_key \in 0..maxEnd
    /\ end_key \in 0..maxEnd
    /\ kangaroo_count \in Kangaroos
    /\ reverse = FALSE
    /\ random_mode = FALSE
    /\ sequence_scan = FALSE
    /\ target_file \in TargetFiles(start_key)

V1_Init == V1_Inputs(MaxV1End) /\ main_pc = "V1_L84" /\ Fresh

\* generate_jump_table: os.urandom(32) for each entry, sampled.
V1_JumpSamples == {k \in {1, Bytes32Max} : k <= Bytes32Max}
V1_generate_jump_table == [1..JumpTableSize -> V1_JumpSamples]

\* kangaroo_jump: (key + jump_table[index % len(jump_table)]) % ORDER
V1_kangaroo_jump(key, table, index) ==
    (key + table[(index % Len(table)) + 1]) % SECP256K1_ORDER

\* The bounds of the i-th range of scan_keys, i from 0 (lines 92-93).
V1_RangeBound(i) ==
    start_key + ((i * (end_key - start_key)) \div kangaroo_count)

\* save_match: the record appended to found.txt.
V1_save_match(k) ==
    <<  <<"Private Key:", k>>,
        <<"RIPEMD-160 Hash:",
          IF Hex(ripemd160_compressed(k)) \in targets
          THEN Hex(ripemd160_compressed(k))
          ELSE Hex(ripemd160_uncompressed(k))>>,
        <<"">> >>

\* ---- coordinator: scan_keys

\* Line 84, load_targets: a missing file ends the program with exit(1).
V1_Load ==
    /\ main_pc = "V1_L84"
    /\ IF target_file.exists
       THEN /\ targets' = load_targets(target_file)
            /\ main_pc' = "V1_L85"
            /\ UNCHANGED stdout
       ELSE /\ stdout' = stdout \cup {"Error: The file was not found."}
            /\ main_pc' = "exited"
            /\ UNCHANGED targets
    /\ UNCHANGED <<inputs, v3vars, v1vars, shared_created, launched, joined,
                   final_total, counters, locks, stop_event, found_file,
                   workervars, statsvars>>

\* Lines 85-89: the counter, the lock, the event and the jump table.
V1_CreateShared ==
    /\ main_pc = "V1_L85"
    /\ jump_table' \in V1_generate_jump_table
    /\ main_pc' = "V1_L98"
    /\ UNCHANGED <<inputs, v3vars, current_key, jump_index, targets, stdout,
                   shared_created, launched, joined, final_total, counters,
                   locks, stop_event, found_file, workervars, statsvars>>

\* Lines 98-99: start the statistics process.
V1_StartStats ==
    /\ main_pc = "V1_L98"
    /\ stats_pc' = "V1_L74"
    /\ main_pc' = "V1_L103"
    /\ UNCHANGED <<inputs, v3vars, v1vars, targets, stdout, shared_created, launched,
                   joined, final_total, counters, locks, stop_event,
                   found_file, workervars, snapshot>>

\* Lines 103-110: start the next worker on its range.
V1_Launch ==
    /\ main_pc = "V1_L103"
    /\ LET w == launched + 1 IN
         /\ start' = [start EXCEPT ![w] = V1_RangeBound(launched)]
         /\ process_end' = [process_end EXCEPT ![w] = V1_RangeBound(w)]
         /\ current_key' = [current_key EXCEPT ![w] = V1_RangeBound(launched)]
         /\ pc' = [pc EXCEPT ![w] = "V1_L53"]
         /\ launched' = w
         /\ main_pc' = IF w = kangaroo_count THEN "V1_L113" ELSE "V1_L103"
    /\ UNCHANGED <<inputs, v3vars, jump_table, jump_index, targets, stdout,
                   shared_created, joined, final_total, counters, locks,
                   stop_event, found_file, sequence, local_generation_count,
                   private_key, tmp, fbuf, fault, statsvars>>

\* Lines 113-114: join the workers in the order they were started.
V1_Join ==
    /\ main_pc = "V1_L113"
    /\ Terminated(joined + 1)
    /\ joined' = joined + 1
    /\ main_pc' = IF joined + 1 = kangaroo_count THEN "V1_L117" ELSE "V1_L113"
    /\ UNCHANGED <<inputs, v3vars, v1vars, targets, stdout, shared_created, launched,
                   final_total, counters, locks, stop_event, found_file,
                   workervars, statsvars>>

\* Line 117: stop_event.set()
V1_SetStop ==
    /\ main_pc = "V1_L117"
    /\ stop_event' = TRUE
    /\ main_pc' = "V1_L118"
    /\ UNCHANGED <<inputs, v3vars, v1vars, targets, stdout, shared_created, launched,
                   joined, final_total, counters, locks, found_file,
                   workervars, statsvars>>

\* Lines 118-119: join the statistics process, print the final count.
V1_JoinStats ==
    /\ main_pc = "V1_L118"
    /\ stats_pc = "done"
    /\ generated_rlock = Free
    /\ final_total' = generated_count
    /\ main_pc' = "done"
    /\ UNCHANGED <<inputs, v3vars, v1vars, targets, stdout, shared_created, launched,
                   joined, counters, locks, stop_event, found_file,
                   workervars, statsvars>>

V1_Main ==
    \/ V1_Load
    \/ V1_CreateShared
    \/ V1_StartStats
    \/ V1_Launch
    \/ V1_Join
    \/ V1_SetStop
    \/ V1_JoinStats

\* ---- scan_worker

\* What a step of a V1 worker leaves alone besides the shared objects.
V1_WorkerFrame ==
    <<inputs, v3vars, jump_table, mainvars, statsvars, start, process_end,
      sequence, local_generation_count, private_key, fbuf>>

\* The loop test of line 53 without the test of the stop event.
V1_LoopTest_IgnoresStop(w) ==
    /\ pc[w] = "V1_L53"
    /\ jump_index[w] < MaxGenerated
    /\ pc' = [pc EXCEPT ![w] =
                IF current_key[w] < process_end[w] THEN "V1_L54" ELSE "stopped"]
    /\ UNCHANGED <<V1_WorkerFrame, current_key, jump_index, counters, locks,
                   stop_event, found_file, tmp, fault>>

\* Line 53: while current_key < end_key and not stop_event.is_set()
V1_LoopTest(w) ==
    /\ pc[w] = "V1_L53"
    /\ \/ stop_event
       \/ current_key[w] >= process_end[w]
       \/ jump_index[w] < MaxGenerated
    /\ pc' = [pc EXCEPT ![w] =
                IF current_key[w] < process_end[w] /\ ~stop_event
                THEN "V1_L54" ELSE "stopped"]
    /\ UNCHANGED <<V1_WorkerFrame, current_key, jump_index, counters, locks,
                   stop_event, found_file, tmp, fault>>

\* Lines 54-66: the fingerprints (SigningKey.from_string raises on a scalar
\* that is zero or not below the order), the test against the targets and,
\* without a match, the jump.
V1_Fingerprint(w) ==
    /\ pc[w] = "V1_L54"
    /\ IF ~ValidSecret(current_key[w])
       THEN /\ Raise(w, "MalformedPointError: Invalid value for secexp")
            /\ UNCHANGED <<current_key, jump_index>>
       ELSE IF IsMatch(current_key[w])
       THEN /\ pc' = [pc EXCEPT ![w] = "V1_L58"]
            /\ UNCHANGED <<current_key, jump_index, fault>>
       ELSE /\ current_key' =
                  [current_key EXCEPT
                     ![w] = V1_kangaroo_jump(@, jump_table, jump_index[w])]
            /\ jump_index' = [jump_index EXCEPT ![w] = @ + 1]
            /\ pc' = [pc EXCEPT ![w] = "V1_L69"]
            /\ UNCHANGED fault
    /\ UNCHANGED <<V1_WorkerFrame, counters, locks, stop_event, found_file,
                   tmp>>

\* Lines 58-59: with lock: print the match.
V1_PrintMatch(w) ==
    /\ pc[w] = "V1_L58"
    /\ lock = Free
    /\ pc' = [pc EXCEPT ![w] = "V1_L60"]
    /\ UNCHANGED <<V1_WorkerFrame, current_key, jump_index, counters, locks,
                   stop_event, found_file, tmp, fault>>

\* V1_SaveMatch that writes nothing.
V1_SaveMatch_Skipped(w) ==
    /\ pc[w] = "V1_L60"
    /\ pc' = [pc EXCEPT ![w] = "V1_L61"]
    /\ UNCHANGED <<V1_WorkerFrame, current_key, jump_index, counters, locks,
                   stop_event, found_file, tmp, fault>>

\* Line 60: save_match appends the record to found.txt.
V1_SaveMatch(w) ==
    /\ pc[w] = "V1_L60"
    /\ found_file' = found_file \o V1_save_match(current_key[w])
    /\ pc' = [pc EXCEPT ![w] = "V1_L61"]
    /\ UNCHANGED <<V1_WorkerFrame, current_key, jump_index, counters, locks,
                   stop_event, tmp, fault>>

\* Lines 61-62: stop_event.set(); break
V1_SetStopOnMatch(w) ==
    /\ pc[w] = "V1_L61"
    /\ stop_event' = TRUE
    /\ pc' = [pc EXCEPT ![w] = "stopped"]
    /\ UNCHANGED <<V1_WorkerFrame, current_key, jump_index, counters, locks,
                   found_file, tmp, fault>>

\* Line 69: with lock
V1_AcquireLock(w) ==
    /\ pc[w] = "V1_L69"
    /\ lock = Free
    /\ lock' = KangarooProc(w)
    /\ pc' = [pc EXCEPT ![w] = "V1_L70"]
    /\ UNCHANGED <<V1_WorkerFrame, current_key, jump_index, counters,
                   generated_rlock, loop_rlock, matches_rlock, stop_event,
                   found_file, tmp, fault>>

\* Line 70, the read of generated_count.value.
V1_ReadGenerated(w) ==
    /\ pc[w] = "V1_L70"
    /\ generated_rlock = Free
    /\ tmp' = [tmp EXCEPT ![w] = generated_count]
    /\ pc' = [pc EXCEPT ![w] = "V1_L70w"]
    /\ UNCHANGED <<V1_WorkerFrame, current_key, jump_index, counters, locks,
                   stop_event, found_file, fault>>

\* Line 70, the write of generated_count.value, and the release of lock.
V1_WriteGenerated(w) ==
    /\ pc[w] = "V1_L70w"
    /\ generated_rlock = Free
    /\ generated_count' = CIntInc(tmp[w])
    /\ tmp' = [tmp EXCEPT ![w] = 0]
    /\ lock' = Free
    /\ pc' = [pc EXCEPT ![w] = "V1_L53"]
    /\ UNCHANGED <<V1_WorkerFrame, current_key, jump_index, loop_count,
                   matches_found, generated_rlock, loop_rlock, matches_rlock,
                   stop_event, found_file, fault>>

V1_Worker(w) ==
    \/ V1_LoopTest(w)
    \/ V1_Fingerprint(w)
    \/ V1_PrintMatch(w)
    \/ V1_SaveMatch(w)
    \/ V1_SetStopOnMatch(w)
    \/ V1_AcquireLock(w)
    \/ V1_ReadGenerated(w)
    \/ V1_WriteGenerated(w)

\* ---- display_statistics

\* Lines 74-75: the loop test, then the sleep.
V1_StatsTest ==
    /\ stats_pc = "V1_L74"
    /\ stats_pc' = IF stop_event THEN "done" ELSE "V1_L77"
    /\ UNCHANGED <<StatsFrame, locks, snapshot>>

\* Lines 77-78: with generated_count.get_lock(): total_keys = ...value
V1_StatsRead ==
    /\ stats_pc = "V1_L77"
    /\ generated_rlock = Free
    /\ snapshot' = <<generated_count, 0, 0>>
    /\ stats_pc' = "V1_L80"
    /\ UNCHANGED <<StatsFrame, locks>>

\* Line 80: print the progress line.
V1_StatsPrint ==
    /\ stats_pc = "V1_L80"
    /\ snapshot' = <<0, 0, 0>>
    /\ stats_pc' = "V1_L74"
    /\ UNCHANGED <<StatsFrame, locks>>

V1_Stats ==
    \/ V1_StatsTest
    \/ V1_StatsRead
    \/ V1_StatsPrint

V1_Next ==
    \/ V1_Main
    \/ V1_Stats
    \/ \E w \in Kangaroos : V1_Worker(w)

\* kangripV1.py alone, every process of it scheduled again and again: the
\* coordinator, the statistics process and each worker take their next step
\* whenever it stays possible.
V1_Fairness ==
    /\ WF_vars(V1_Main)
    /\ WF_vars(V1_Stats)
    /\ \A w \in Kangaroos : WF_vars(V1_Worker(w))

SpecV1Live == V1_Init /\ [][V1_Next]_vars /\ V1_Fairness

\* Both scripts: a run is a run of kangrip.py or a run of kangripV1.py.
SpecScripts == (Init \/ V1_Init) /\ [][Next \/ V1_Next]_vars

\* ============================================================== kangripV3.py
\* start_key, end_key and kangaroo_count hold start_range, end_range and
\* max_workers; start and process_end hold the s and e of each task;
\* found_file is RIPFOUND.txt and all_file is found.txt.

\* The -f file of kangripV3: raw 20-byte digests, read whole (lines 70-74).
V3_TargetFiles ==
    {[exists |-> FALSE, lines |-> {}],
     [exists |-> TRUE, lines |-> {}],
     [exists |-> TRUE, lines |-> {ripemd160_compressed(end_key - 1)}],
     [exists |-> TRUE, lines |-> {ripemd160_compressed(start_key),
                                  ripemd160_compressed(end_key - 1)}]}

\* kangripV3.main is entered with a range start:end, start below end, and a
\* thread count of at least one.
V3_Init ==
    /\ start_key \in 0..MaxV3End
    /\ end_key \in 0..MaxV3End
    /\ start_key < end_key
    /\ kangaroo_count \in Kangaroos
    /\ reverse = FALSE
    /\ random_mode = FALSE
    /\ sequence_scan = FALSE
    /\ target_file \in V3_TargetFiles
    /\ main_pc = "V3_L70"
    /\ Fresh

\* step_size = (end_range - start_range) // max_workers
V3_step_size == (end_key - start_key) \div kangaroo_count

\* Lines 89-90: the task of index i, from 0.
V3_s(i) == start_key + i * V3_step_size
V3_e(i) == IF i < kangaroo_count - 1 THEN V3_s(i) + V3_step_size ELSE end_key

\* Line 46: the line kept of a candidate, "<key hex>,<digest hex>\n".
V3_OutputLine(k) == <<Hex(k), Hex(ripemd160_compressed(k)), "eol">>

\* Line 50: the pair kept of a match, (priv_key.to_hex(), ripemd_hash.hex()).
V3_FoundKey(k) == <<Hex(k), Hex(ripemd160_compressed(k))>>

\* Line 105: the line written to RIPFOUND.txt for a pair of found_keys.
V3_FoundLine(pair) == <<pair[1], pair[2], "eol">>

\* Lines 70-74: read the target digests; open() raises on a missing file.
V3_Load ==
    /\ main_pc = "V3_L70"
    /\ IF target_file.exists
       THEN /\ targets' = target_file.lines
            /\ main_pc' = "V3_L88"
       ELSE /\ main_pc' = "exited"
            /\ UNCHANGED targets
    /\ UNCHANGED <<inputs, v1vars, v3vars, stdout, shared_created, launched,
                   joined, final_total, counters, locks, stop_event,
                   found_file, workervars, statsvars>>

\* Lines 88-91: submit the next task to the pool.
V3_Submit ==
    /\ main_pc = "V3_L88"
    /\ LET w == launched + 1 IN
         /\ start' = [start EXCEPT ![w] = V3_s(launched)]
         /\ process_end' = [process_end EXCEPT ![w] = V3_e(launched)]
         /\ candidate' = [candidate EXCEPT ![w] = V3_s(launched)]
         /\ pc' = [pc EXCEPT ![w] = "V3_L32"]
         /\ launched' = w
         /\ main_pc' = IF w = kangaroo_count THEN "V3_L94" ELSE "V3_L88"
    /\ UNCHANGED <<inputs, v1vars, found_keys, generated_outputs,
                   worker_stdout, all_file, targets, stdout, shared_created,
                   joined, final_total, counters, locks, stop_event,
                   found_file, sequence, local_generation_count, private_key,
                   tmp, fbuf, fault, statsvars>>

\* What a step of a kangaroo_worker leaves alone.
V3_WorkerFrame ==
    <<inputs, v1vars, all_file, mainvars, counters, locks, stop_event,
      found_file, statsvars, start, process_end, sequence,
      local_generation_count, private_key, tmp, fbuf, fault>>

\* V3_Visit without the try/except of lines 35-52: a key that PrivateKey
\* rejects ends the worker.
V3_Visit_Uncaught(w) ==
    /\ pc[w] = "V3_L32"
    /\ LET k == candidate[w] IN
         IF k >= process_end[w] \/ k >= CURVE_ORDER \/ ~ValidSecret(k)
         THEN /\ pc' = [pc EXCEPT ![w] = "V3_returned"]
              /\ UNCHANGED <<candidate, found_keys, generated_outputs,
                             worker_stdout>>
         ELSE /\ generated_outputs' =
                    [generated_outputs EXCEPT ![w] = Append(@, V3_OutputLine(k))]
              /\ found_keys' =
                    [found_keys EXCEPT
                       ![w] = IF ripemd160_compressed(k) \in targets
                              THEN Append(@, V3_FoundKey(k)) ELSE @]
              /\ candidate' = [candidate EXCEPT ![w] = k + 1]
              /\ UNCHANGED <<pc, worker_stdout>>
    /\ UNCHANGED V3_WorkerFrame

\* Lines 32-53, one turn of the for loop: the end of the range returns, a
\* candidate at or above CURVE_ORDER breaks, a key that PrivateKey rejects
\* (zero, or not below the group order) is reported and skipped, any other
\* is recorded and tested against the targets.
V3_Visit(w) ==
    /\ pc[w] = "V3_L32"
    /\ LET k == candidate[w] IN
         IF k >= process_end[w] \/ k >= CURVE_ORDER
         THEN /\ pc' = [pc EXCEPT ![w] = "V3_returned"]
              /\ UNCHANGED <<candidate, found_keys, generated_outputs,
                             worker_stdout>>
         ELSE /\ IF FitsBytes32(k) /\ ValidSecret(k)
                 THEN /\ generated_outputs' =
                            [generated_outputs EXCEPT
                               ![w] = Append(@, V3_OutputLine(k))]
                      /\ found_keys' =
                            [found_keys EXCEPT
                               ![w] = IF ripemd160_compressed(k) \in targets
                                      THEN Append(@, V3_FoundKey(k)) ELSE @]
                      /\ UNCHANGED worker_stdout
                 ELSE /\ worker_stdout' =
                            [worker_stdout EXCEPT
                               ![w] = Append(@, <<"Error with key", k>>)]
                      /\ UNCHANGED <<found_keys, generated_outputs>>
              /\ candidate' = [candidate EXCEPT ![w] = k + 1]
              /\ UNCHANGED pc
    /\ UNCHANGED V3_WorkerFrame

\* Lines 94-106: take the result of a task that is done, write its outputs
\* to found.txt and its matches to RIPFOUND.txt.
V3_Collect ==
    /\ main_pc = "V3_L94"
    /\ \E w \in 1..kangaroo_count :
          /\ pc[w] = "V3_returned"
          /\ all_file' = all_file \o generated_outputs[w]
          /\ found_file' = found_file \o
                [i \in 1..Len(found_keys[w]) |-> V3_FoundLine(found_keys[w][i])]
          /\ stdout' = stdout
                \cup (IF found_keys[w] = <<>> THEN {}
                      ELSE {"Found matching key"})
          /\ pc' = [pc EXCEPT ![w] = "V3_collected"]
          /\ main_pc' =
                IF \A v \in 1..kangaroo_count : v = w \/ pc[v] = "V3_collected"
                THEN "V3_L116" ELSE "V3_L94"
    /\ UNCHANGED <<inputs, v1vars, candidate, found_keys, generated_outputs,
                   worker_stdout, targets, shared_created, launched, joined,
                   final_total, counters, locks, stop_event, start,
                   process_end, sequence, local_generation_count, private_key,
                   tmp, fbuf, fault, statsvars>>

\* Lines 116-119: the summary.
V3_Summary ==
    /\ main_pc = "V3_L116"
    /\ stdout' = stdout
          \cup {IF found_file = <<>> THEN "No matching keys found."
                ELSE "Matching keys saved to RIPFOUND.txt"}
    /\ main_pc' = "done"
    /\ UNCHANGED <<inputs, v1vars, v3vars, targets, shared_created, launched,
                   joined, final_total, counters, locks, stop_event,
                   found_file, workervars, statsvars>>

V3_Next ==
    \/ V3_Load
    \/ V3_Submit
    \/ \E w \in Kangaroos : V3_Visit(w)
    \/ V3_Collect
    \/ V3_Summary

SpecV3 == V3_Init /\ [][V3_Next]_vars

\* ===================================================================== claims

\* The kangaroos that scan_keys has started.
Launched == {w \in Kangaroos : pc[w] # "unstarted"}

\* A kangaroo that holds a candidate: between line 61 and the end of line 72.
HoldsCandidate(w) ==
    pc[w] \in {"L63", "L64", "L64w", "L70", "L71", "L72", "L72w"}

\* The output file, record by record.
RecordLines == Len(FormatRecord(1, 1))
RecordCount == Len(found_file) \div RecordLines
RecordAt(i) == SubSeq(found_file, (i - 1) * RecordLines + 1, i * RecordLines)

\* ---------------------------------------------------------------------- C1
\* C1: no increment of a shared counter is lost.  Every step that completes
\* `generated_count.value += 1` (or the increment of loop_count, or of
\* matches_found) leaves the counter exactly one above the value it had just
\* before the step, whatever the other kangaroos and the statistics process
\* did since this kangaroo read it; and no other step changes a counter.  So
\* after k workers have completed n increments each the counter is k * n.
C1_NoLostUpdate ==
    [][ /\ \A w \in Kangaroos :
              (pc[w] = "L64w" /\ pc'[w] # "L64w")
                  => generated_count' = CIntInc(generated_count)
        /\ \A w \in Kangaroos :
              (pc[w] = "L57w" /\ pc'[w] # "L57w")
                  => loop_count' = CIntInc(loop_count)
        /\ \A w \in Kangaroos :
              (pc[w] = "L72w" /\ pc'[w] # "L72w")
                  => matches_found' = CIntInc(matches_found)
        /\ generated_count' # generated_count
              => \E w \in Kangaroos : pc[w] = "L64w" /\ pc'[w] # "L64w"
        /\ loop_count' # loop_count
              => \E w \in Kangaroos : pc[w] = "L57w" /\ pc'[w] # "L57w"
        /\ matches_found' # matches_found
              => \E w \in Kangaroos : pc[w] = "L72w" /\ pc'[w] # "L72w"
      ]_vars

\* Two kangaroos have each counted one candidate and the counter is 2.
C1_Witness ==
    /\ kangaroo_count >= 2
    /\ local_generation_count[1] = 1
    /\ local_generation_count[2] = 1
    /\ generated_count = 2

\* ---------------------------------------------------------------------- C2
\* C2 (as claimed): once scan_keys has started its k kangaroos on nonempty
\* subranges, the subranges [start, process_end) are contiguous and their
\* union is [start_key, end_key); the last process_end is end_key.
C2_PartitionExact ==
    (main_pc = "L125" /\ kangaroo_count <= end_key - start_key)
        => /\ start[1] = start_key
           /\ \A w \in 1..(kangaroo_count - 1) : process_end[w] = start[w + 1]
           /\ \A w \in 1..kangaroo_count : start[w] < process_end[w]
           /\ process_end[kangaroo_count] = end_key

\* ---------------------------------------------------------------------- C3
\* The scenario of C3: one kangaroo, sequential, step +1, and the target is
\* the fingerprint of a scalar of the range (its first one).
C3_Scenario ==
    /\ sequence_scan /\ ~random_mode /\ ~reverse
    /\ kangaroo_count = 1
    /\ targets = {Hex(ripemd160_compressed(start_key))}

\* C3 (as claimed): in that scenario every scalar the kangaroo tests is a
\* cursor value of [start_key, end_key), the file never holds more than the
\* one record of the target scalar, and once the cursor has run through the
\* range that record is in the file.
C3_SequentialFindsTarget ==
    C3_Scenario =>
        /\ HoldsCandidate(1)
              => (start_key <= private_key[1] /\ private_key[1] < end_key)
        /\ RecordCount <= 1
        /\ RecordCount = 1 => found_file = FormatRecord(1, start_key)
        /\ (pc[1] # "unstarted" /\ sequence[1] >= end_key) => RecordCount = 1

\* ---------------------------------------------------------------------- C4
\* C4 (as claimed): in a sequential run the bounded scan completes: a
\* kangaroo whose cursor has run past the bound of the range stops there (it
\* is at the loop test, or has stopped), so that the join can return.
C4_BoundedScanCompletes ==
    (sequence_scan /\ ~random_mode) =>
        \A w \in Launched : PastBound(w) => pc[w] \in {"L54", "stopped"}

\* ---------------------------------------------------------------------- C5
\* C5: cancellation is cooperative and prompt.  Once the stop event is set
\* it stays set; a worker of kangrip.py or of kangripV1.py that comes to its
\* loop test with the event set stops there and starts no other iteration;
\* and the statistics process that comes to its loop test with the event
\* set ends, so that it prints at most the one line it was about to print
\* when the event was set (after a print it is at the loop test again).
C5_CooperativeStop ==
    [][ stop_event =>
          /\ stop_event'
          /\ \A w \in Kangaroos :
                pc[w] \in {"L54", "V1_L53"} => pc'[w] \in {pc[w], "stopped"}
          /\ stats_pc \in {"L86", "V1_L74"} => stats_pc' \in {stats_pc, "done"}
          /\ stats_pc = "L94" => stats_pc' \in {"L94", "L86"}
          /\ stats_pc = "V1_L80" => stats_pc' \in {"V1_L80", "V1_L74"}
      ]_vars

\* One kangripV1 worker set the event on its match and another, cut short
\* inside its range on a scalar that is no match, has stopped after at
\* least one jump.
C5_Witness ==
    /\ stop_event
    /\ main_pc = "V1_L113"
    /\ \E w \in Kangaroos :
          /\ pc[w] = "stopped"
          /\ jump_index[w] >= 1
          /\ current_key[w] < process_end[w]
          /\ ~IsMatch(current_key[w])

\* ---------------------------------------------------------------------- C6
\* C6: with no target loaded main reports it and returns: scan_keys is never
\* entered, so no counter, lock or event is created, no statistics process
\* and no kangaroo is started, and nothing is counted or written.
C6_EmptyTargetsNoLaunch ==
    load_targets(target_file) = {} =>
        /\ main_pc \in {"L146", "returned"}
        /\ main_pc = "returned" => "No targets loaded. Exiting." \in stdout
        /\ ~shared_created
        /\ stats_pc = "unstarted"
        /\ Launched = {}
        /\ launched = 0
        /\ counters = <<0, 0, 0>>
        /\ ~stop_event
        /\ found_file = <<>>

\* main has returned on an empty target set.
C6_Witness ==
    /\ load_targets(target_file) = {}
    /\ main_pc = "returned"

\* ---------------------------------------------------------------------- C7
\* C7 (as claimed): with more kangaroos than the range is wide, scan_keys
\* rejects the partition and starts no kangaroo; and no kangaroo is ever
\* started on an empty subrange.
C7_DegenerateRejected ==
    /\ kangaroo_count > end_key - start_key
          => (launched = 0 /\ Launched = {})
    /\ \A w \in Launched : start[w] < process_end[w]

\* ---------------------------------------------------------------------- C8
\* C8 (as claimed): a candidate that is zero or not below the curve order is
\* skipped: it never terminates the kangaroo.
C8_InvalidScalarSkipped ==
    \A w \in Kangaroos :
        pc[w] = "dead" =>
            fault[w] \notin {"ValueError: secret out of range",
                             "OverflowError: int too big to convert"}

\* ---------------------------------------------------------------------- C9
\* C9: the output file is at all times a sequence of whole records, each the
\* record of one kangaroo for a scalar that matches a target, and there is
\* one record per hit: the records are the hits already counted in
\* matches_found and those of the kangaroos between the append and the
\* count (lines 71-72).
C9_AppendsAtomic ==
    /\ Len(found_file) = RecordCount * RecordLines
    /\ \A i \in 1..RecordCount :
          \E w \in Kangaroos, k \in 1..(SECP256K1_ORDER - 1) :
              IsMatch(k) /\ RecordAt(i) = FormatRecord(w, k)
    /\ RecordCount =
          matches_found
          + Cardinality({w \in Kangaroos : pc[w] \in {"L71", "L72", "L72w"}})

\* Two kangaroos have appended a record each.
C9_Witness ==
    /\ RecordCount = 2
    /\ \E k \in 1..(SECP256K1_ORDER - 1) :
          /\ RecordAt(1) = FormatRecord(1, k) \/ RecordAt(1) = FormatRecord(2, k)
          /\ RecordAt(2) = FormatRecord(1, k) \/ RecordAt(2) = FormatRecord(2, k)
          /\ RecordAt(1) # RecordAt(2)

\* --------------------------------------------------------------------- C10
\* C10 (as claimed): with -R alone and no target that a drawn key matches,
\* the run goes on for ever: as long as no kangaroo has drawn an invalid
\* scalar (the case of C8), no kangaroo terminates and the coordinator does
\* not get past its join.
C10_RandomRunsForever ==
    (/\ random_mode /\ ~sequence_scan
     /\ \A k \in UrandomSamples : ~IsMatch(k)
     /\ \A w \in Kangaroos : fault[w] # "ValueError: secret out of range")
        => /\ \A w \in Kangaroos : ~Terminated(w)
           /\ main_pc \notin {"L128", "L129", "done"}

\* --------------------------------------------------------------------- C11
\* C11: the triple that display_statistics reports is a consistent snapshot.
\* While the reporter reads, every value it has already read is still the
\* value of its counter, and at the instant the read completes the three
\* values read are the values the three counters hold at that instant.
C11_ConsistentSnapshot ==
    [][ /\ stats_pc' \in {"L91", "L92"} => snapshot'[1] = generated_count'
        /\ stats_pc' = "L92" => snapshot'[2] = loop_count'
        /\ (stats_pc = "L92" /\ stats_pc' = "L94")
              => /\ snapshot' = <<generated_count, loop_count, matches_found>>
                 /\ counters' = counters
      ]_vars

\* The reporter is in the middle of its read, has read a count that is not
\* zero, and a kangaroo that has read the counter is waiting to write it.
C11_Witness ==
    /\ stats_pc = "L92"
    /\ snapshot[1] >= 1
    /\ \E w \in Kangaroos : pc[w] = "L64w"

\* --------------------------------------------------------------------- C12
\* The sum of the kangaroos' local generation counts.
RECURSIVE LocalCounts(_)
LocalCounts(n) ==
    IF n = 0 THEN 0 ELSE local_generation_count[n] + LocalCounts(n - 1)

\* C12: shutdown is ordered.  The stop event is set only when every kangaroo
\* that was started has terminated; the statistics process ends only after
\* the event is set; no counter changes once the event is set; and the
\* final count is printed after the statistics process has ended and is the
\* value of generated_count, which agrees with the kangaroos' own counts of
\* their increments (a local count restarts from zero each time it reaches
\* RANGE_SHUFFLE_THRESHOLD, so the two agree modulo the threshold).
C12_OrderedShutdown ==
    [][ /\ (~stop_event /\ stop_event')
              => /\ launched = kangaroo_count
                 /\ \A w \in 1..kangaroo_count : Terminated(w)
        /\ stop_event => counters' = counters
        /\ (stats_pc # "done" /\ stats_pc' = "done") => stop_event
        /\ (main_pc # "done" /\ main_pc' = "done")
              => /\ stats_pc = "done"
                 /\ final_total' = generated_count
                 /\ final_total' % RANGE_SHUFFLE_THRESHOLD
                       = LocalCounts(MaxKangaroos) % RANGE_SHUFFLE_THRESHOLD
      ]_vars

\* The run has ended and the final count is that of two kangaroos.
C12_Witness ==
    /\ main_pc = "done"
    /\ kangaroo_count = 2
    /\ final_total = 2

\* --------------------------------------------------------------------- C13
\* C13 (as claimed): a kangaroo that died of a fault while others are still
\* searching is detected by the coordinator and the degraded run is
\* reported: once the coordinator's join of the dead kangaroo has returned,
\* the report is on the output.
C13_DeadWorkerSurfaced ==
    \A w \in Kangaroos :
        (/\ pc[w] = "dead"
         /\ joined >= w
         /\ \E v \in 1..kangaroo_count : ~Terminated(v))
            => "WorkerPanic" \in stdout

\* --------------------------------------------------------------------- C14
\* C14 (as claimed): in a sequential run over nonempty subranges, and before
\* any kangaroo can have reached the reshuffle threshold, the cursor of
\* every candidate lies within the bounds of the kangaroo's own subrange:
\* the cursor wraps to the subrange start as soon as it passes them.
C14_WrapAtSubrangeBound ==
    (/\ sequence_scan /\ ~random_mode
     /\ kangaroo_count <= end_key - start_key
     /\ generated_count < RANGE_SHUFFLE_THRESHOLD)
        => \A w \in Kangaroos :
              HoldsCandidate(w)
                  => (start[w] <= sequence[w] /\ sequence[w] <= process_end[w])

\* --------------------------------------------------------------------- C15
\* C15: a hit is on the file before it is counted.  The matches counter is
\* never above the number of records in the file; a kangaroo that is about
\* to count its hit (lines 70-71) has its record in the file already; and a
\* record not yet written belongs to a kangaroo that is still at the write
\* of line 69, not at a later statement nor at another candidate.
C15_RecordBeforeCount ==
    /\ matches_found <= RecordCount
    /\ \A w \in Kangaroos :
          pc[w] \in {"L71", "L72", "L72w"}
              => \E i \in 1..RecordCount :
                    RecordAt(i) = FormatRecord(w, private_key[w])
    /\ \A w \in Kangaroos : fbuf[w] # <<>> => pc[w] = "L70"

\* One hit is counted and a second one is on the file, its kangaroo about to
\* count it.
C15_Witness ==
    /\ matches_found = 1
    /\ RecordCount = 2
    /\ \E w \in Kangaroos : pc[w] = "L72"

\* --------------------------------------------------------------------- C16
\* C16 (as claimed): in random mode every candidate scalar lies in the range
\* [start_key, end_key) that the run was given.
C16_RandomWithinRange ==
    random_mode =>
        \A w \in Kangaroos :
            HoldsCandidate(w)
                => (start_key <= private_key[w] /\ private_key[w] < end_key)

\* --------------------------------------------------------------------- C17
\* C17 (as claimed): a reshuffle moves the kangaroo into a slice of the
\* range, in both directions.  On every step that completes a reshuffle (the
\* local count is back at 0), the start of the new slice lies in
\* [start_key, end_key] and the kangaroo's next cursor lies in the range and
\* not before the start of the slice.
C17_ReshuffleInsideRange ==
    [][ \A w \in Kangaroos :
          (/\ pc[w] \in {"L64w", "L72w"}
           /\ pc'[w] = "L54"
           /\ local_generation_count'[w] = 0)
              => LET process_start == sequence'[w] - step IN
                   /\ start_key <= process_start
                   /\ process_start <= end_key
                   /\ process_start <= sequence'[w]
                   /\ sequence'[w] <= end_key
      ]_vars

\* --------------------------------------------------------------------- C18
\* C18 (as claimed): the shared counters are counts: none of them is ever
\* negative and the generated count never decreases, however many
\* candidates have been counted.
C18_CountersAreCounts ==
    [][ /\ generated_count' >= generated_count
        /\ generated_count' >= 0
        /\ loop_count' >= 0
        /\ matches_found' >= 0
      ]_vars

\* --------------------------------------------------------------------- C19
\* The record of kangripV1 worker w's current key is in found.txt.
V1_RecordWritten(w) ==
    \E i \in 1..Len(found_file) :
        /\ i + 2 <= Len(found_file)
        /\ SubSeq(found_file, i, i + 2) = V1_save_match(current_key[w])

\* C19: kangripV1 halts on a match.  A worker that is about to set the stop
\* event, and, as long as the coordinator has not set the event itself, some
\* worker that has stopped on a key that matches, has its record in the
\* file; and once the event is set the run comes to its end: every worker
\* terminates, the joins return, the statistics process ends and the final
\* count is printed.
C19_MatchThenHalt ==
    /\ [](\A w \in Kangaroos : pc[w] = "V1_L61" => V1_RecordWritten(w))
    /\ []((stop_event /\ main_pc \notin {"V1_L118", "done"})
             => \E w \in Kangaroos :
                   /\ pc[w] = "stopped"
                   /\ IsMatch(current_key[w])
                   /\ V1_RecordWritten(w))
    /\ (stop_event ~> (/\ main_pc = "done"
                       /\ stats_pc = "done"
                       /\ \A w \in 1..kangaroo_count : Terminated(w)
                       /\ final_total = generated_count))

\* A run of two workers has ended on a match after the other worker had
\* counted a jump.
C19_Witness ==
    /\ main_pc = "done"
    /\ kangaroo_count = 2
    /\ found_file # <<>>
    /\ final_total >= 1

\* --------------------------------------------------------------------- C20
\* The visits of scalar x so far: the turns of a worker's loop that recorded
\* x or reported it as rejected.
V3_Visits(x) ==
    {<<p[1], "recorded", p[2]>> :
        p \in {q \in Kangaroos \X (1..(MaxV3End + 1)) :
                 /\ q[2] <= Len(generated_outputs[q[1]])
                 /\ generated_outputs[q[1]][q[2]][1] = Hex(x)}}
    \cup
    {<<p[1], "rejected", p[2]>> :
        p \in {q \in Kangaroos \X (1..(MaxV3End + 1)) :
                 /\ q[2] <= Len(worker_stdout[q[1]])
                 /\ worker_stdout[q[1]][q[2]][2] = x}}

\* C20: kangripV3 sweeps the range once.  No scalar is visited twice, by the
\* same worker or by two; a scalar that is visited lies in the task of its
\* worker, in [start_range, end_range) and below CURVE_ORDER; once every
\* worker has returned, every such scalar of the range has been visited,
\* those that key construction rejects included; and the found_keys of a
\* worker are, in order, its recorded scalars whose fingerprint is a target.
C20_SweepOnce ==
    LET IsTarget(line) == ripemd160_compressed(line[1][2]) \in targets
        Matches(w) == SelectSeq(generated_outputs[w], IsTarget)
    IN
    /\ \A x \in 0..MaxV3End :
          /\ Cardinality(V3_Visits(x)) <= 1
          /\ \A v \in V3_Visits(x) :
                /\ start[v[1]] <= x /\ x < process_end[v[1]]
                /\ start_key <= x /\ x < end_key
                /\ x < CURVE_ORDER
    /\ (\A w \in 1..kangaroo_count : pc[w] \in {"V3_returned", "V3_collected"})
          => \A x \in start_key..(end_key - 1) :
                x < CURVE_ORDER => Cardinality(V3_Visits(x)) = 1
    /\ \A w \in Kangaroos :
          found_keys[w] =
             [i \in 1..Len(Matches(w)) |-> <<Matches(w)[i][1], Matches(w)[i][2]>>]

\* A run has ended in which one worker reported a rejected key, went on and
\* found a key.
C20_Witness ==
    /\ main_pc = "done"
    /\ \E w \in Kangaroos :
          /\ worker_stdout[w] # <<>>
          /\ found_keys[w] # <<>>
          /\ found_keys[w][1][1][2] > worker_stdout[w][1][2]

\* --------------------------------------------------------------------- C21
\* The processes of scan_keys that take locks and have not ended.
LiveProcs ==
    {KangarooProc(w) : w \in {v \in Launched : ~Terminated(v)}}
    \cup (IF stats_pc \in {"unstarted", "done"} THEN {} ELSE {StatsProc})

\* A kangaroo is waiting for a lock that another process holds: the
\* loop_count lock of line 56, the shared lock of line 63, inside it the
\* generated counter's own lock of line 64, or the matches lock of line 71.
KangarooBlocked(w) ==
    \/ pc[w] = "L56" /\ loop_rlock # Free
    \/ pc[w] = "L63" /\ lock # Free
    \/ pc[w] \in {"L64", "L64w"} /\ generated_rlock # Free
    \/ pc[w] = "L71" /\ matches_rlock # Free

\* The reporter is waiting for one of the three locks of line 89.
StatsBlocked ==
    \/ stats_pc = "L89" /\ generated_rlock # Free
    \/ stats_pc = "L89b" /\ loop_rlock # Free
    \/ stats_pc = "L89c" /\ matches_rlock # Free

\* C21: the locking of kangrip.py is free of deadlock.  Every lock that is
\* held is held by a process that has not ended, and whenever some process
\* that takes locks is live, one of them is not waiting for a lock.
C21_NoLockDeadlock ==
    /\ \A l \in {lock, generated_rlock, loop_rlock, matches_rlock} :
          l = Free \/ l \in LiveProcs
    /\ LiveProcs # {}
          => \/ \E w \in Kangaroos :
                   KangarooProc(w) \in LiveProcs /\ ~KangarooBlocked(w)
             \/ StatsProc \in LiveProcs /\ ~StatsBlocked

\* The locks are contended as far as they can be: the reporter holds the
\* generated counter's lock, one kangaroo holds the shared lock and waits for
\* the generated counter's lock, and the other waits for the shared lock.
C21_Witness ==
    /\ generated_rlock = StatsProc
    /\ \E w \in Kangaroos : pc[w] = "L64" /\ KangarooBlocked(w)
    /\ \E w \in Kangaroos : pc[w] = "L63" /\ KangarooBlocked(w)

\* --------------------------------------------------------------------- C22
\* The kangaroos that have counted a matching candidate as generated and have
\* not yet counted it as a match: between line 68 and the end of line 72.
MatchPending == {w \in Kangaroos : pc[w] \in {"L70", "L71", "L72", "L72w"}}

\* C22: matches never exceed candidates.  In every state matches_found, with
\* the matches still on their way to being counted, is at most
\* generated_count, and the line that the reporter prints has
\* matches <= total_keys.
C22_MatchesAtMostGenerated ==
    /\ matches_found + Cardinality(MatchPending) <= generated_count
    /\ stats_pc = "L94" => snapshot[3] <= snapshot[1]

\* Both fingerprints of a candidate were in the target set, the candidate
\* has been counted as one match, and the reporter is about to print it.
C22_Witness ==
    /\ \E k \in 0..Bytes32Max :
          {Hex(ripemd160_compressed(k)), Hex(ripemd160_uncompressed(k))}
             \subseteq targets
    /\ matches_found >= 1
    /\ matches_found = generated_count
    /\ stats_pc = "L94"
    /\ snapshot[3] >= 1

====
